---- MODULE Spec2Model ----
(***************************************************************************)
(* CryptoVisor trading view (src/app/page.tsx, TradingView component):     *)
(* the WebSocket connection lifecycle, the pair-switch queue, the update   *)
(* throttle / flood guard and the deferred publish of order-book state.    *)
(*                                                                         *)
(* Time is relative: every timer is the number of milliseconds left until  *)
(* it fires, every timestamp ref (lastCleanup, lastUpdateRef,              *)
(* lastMessageTime) is kept as Date.now() minus the stored value,          *)
(* saturated at Old (anything above every threshold the code compares      *)
(* with).  A ref holding 0 (never set / reset) has age Old.                *)
(***************************************************************************)
EXTENDS Integers, Sequences, FiniteSets, TLC

\* ------------------------------------------------------------ bounds
Tick == 500          \* milliseconds that pass in one Tick step
MaxWs == 4           \* WebSocket objects alive (attached or with a timer) at once
MaxQueue == 3        \* length of connectionQueueRef
MaxTasks == 3        \* concurrent processConnectionQueue runs / chained timers
MaxOrphans == 1      \* reconnect timers whose handle was overwritten
MaxRaf == 2          \* requestAnimationFrame callbacks pending at once
MaxFaults == 1       \* transport faults (stalls, errors, server closes) in a run
MaxReq == 3          \* clicks on a pair button in a run
MaxAdmit == 3        \* updates that pass the throttle in a run without a steady feed

\* ------------------------------------------------- program constants
CleanupGuard == 1000
ThrottleMs == 500
FloodLimit == 100
FloodGap == 1000
ResetGap == 1000
GraceDelay == 1000
ConnectTimeout == 5000
ReconnectDelay == 3000
PingInterval == 15000
SettleDelay == 500
NextDelay == 500
HistCap == 60
NormalClose == 1000

tradingPairs ==
  << [symbol |-> "BTCUSDT", name |-> "BTC-USD", binanceSymbol |-> "BTCUSDT"],
     [symbol |-> "ETHUSDT", name |-> "ETH-USD", binanceSymbol |-> "ETHUSDT"],
     [symbol |-> "XRPUSDT", name |-> "XRP-USD", binanceSymbol |-> "XRPUSDT"] >>

Symbols == { tradingPairs[i].symbol : i \in 1..Len(tradingPairs) }

\* tradingPairs.find(pair => pair.symbol === value)
FindPair(value) ==
  IF value \in Symbols
    THEN CHOOSE p \in { tradingPairs[i] : i \in 1..Len(tradingPairs) } : p.symbol = value
    ELSE [symbol |-> "undefined", name |-> "undefined", binanceSymbol |-> "undefined"]

\* String.prototype.toLowerCase on the feed symbols
ToLowerCase(str) ==
  CASE str = "BTCUSDT" -> "btcusdt"
    [] str = "ETHUSDT" -> "ethusdt"
    [] str = "XRPUSDT" -> "xrpusdt"
    [] OTHER -> str

\* wsUrl: `wss://stream.binance.com:9443/ws/${binanceSymbol}@depth20@100ms`;
\* the model keeps the part of the address that varies.
WsUrl(pairSymbol) == ToLowerCase(FindPair(pairSymbol).binanceSymbol)

\* url.includes(currentSymbol), for addresses built by WsUrl
UrlIncludes(url, sym) == url = sym

\* ------------------------------------------------------- time helpers
Old == ResetGap + 1
Age(a, d) == IF a + d > ResetGap THEN Old ELSE a + d
NoTimer == 0 - 1
Run(t, d) == IF t = NoTimer THEN NoTimer ELSE IF t - d < 0 THEN 0 ELSE t - d
Due(t) == t # NoTimer /\ t <= 0

\* --------------------------------------------------------------- state
VARIABLES
  ws,                   \* the WebSocket objects: [st, att, pair, url, ctimer, ping, cev, eev, cu, stall]
  wsRef,                \* wsRef.current (0 = null)
  reconnectTimeoutRef,  \* time left of the timer reconnectTimeoutRef.current names
  orphanReconnects,     \* reconnect timers whose handle was overwritten, not cleared
  updateTimeoutRef,     \* the socket whose ping interval updateTimeoutRef.current names
  lastUpdateRef,        \* Date.now() - lastUpdateRef.current
  prevOrderBookRef,     \* prevOrderBookRef.current
  connectionQueueRef,   \* connectionQueueRef.current
  isProcessingRef,      \* isProcessingRef.current
  performanceRef,       \* [lastCleanup, messageCount, lastMessageTime] (times as ages)
  orderBookData, spreadHistory, imbalance,   \* published React state
  selectedPair,         \* React state selectedPair (its symbol)
  renderedPair,         \* selectedPair of the committed render, which the live closures see
  connectionStatus,     \* React state connectionStatus
  graceTimers,          \* pending flood-guard setTimeout(..., 1000)
  settleTasks,          \* processConnectionQueue runs suspended in their 500ms await
  nextTimers,           \* pending setTimeout(processConnectionQueue, 500)
  rafQueue,             \* pending requestAnimationFrame callbacks
  sinceAdmit,           \* history: time since the last admitted update
  countSince,           \* history: time since messageCount was last reset to 0
  faults,               \* history: transport faults injected so far
  requests,             \* history: clicks on a pair button so far
  lastRequest,          \* history: the symbol of the last pair button clicked
  admits,               \* history: updates that passed the throttle so far
  scenario,             \* what the environment of this run does (never changes)
  mounted,              \* the TradingView component is mounted
  statusBefore,         \* history: connectionStatus before the last step
  job,                  \* a depth message taken through updateOrderBook's arithmetic
  ev                    \* history: what the last step did

vars == << ws, wsRef, reconnectTimeoutRef, orphanReconnects, updateTimeoutRef,
           lastUpdateRef, prevOrderBookRef, connectionQueueRef, isProcessingRef,
           performanceRef, orderBookData, spreadHistory, imbalance, selectedPair,
           renderedPair, connectionStatus, graceTimers, settleTasks, nextTimers,
           rafQueue, sinceAdmit, countSince, faults, requests, lastRequest, admits,
           scenario, mounted, statusBefore, job, ev >>

Slots == 1..MaxWs

FreeWs == [st |-> "FREE", att |-> FALSE, pair |-> "none", url |-> "none",
           ctimer |-> NoTimer, ping |-> NoTimer, cev |-> 0, eev |-> FALSE, cu |-> FALSE,
           stall |-> FALSE]

NoBook == [sym |-> "none", prev |-> "none", stale |-> FALSE]
NoEv == [kind |-> "none"]
NoJob == [stage |-> "none"]

\* The whole state as one record, so that a handler is a function on it.
State ==
  [ ws |-> ws, wsRef |-> wsRef, reconnectTimeoutRef |-> reconnectTimeoutRef,
    orphanReconnects |-> orphanReconnects, updateTimeoutRef |-> updateTimeoutRef,
    lastUpdateRef |-> lastUpdateRef, prevOrderBookRef |-> prevOrderBookRef,
    connectionQueueRef |-> connectionQueueRef, isProcessingRef |-> isProcessingRef,
    performanceRef |-> performanceRef, orderBookData |-> orderBookData,
    spreadHistory |-> spreadHistory, imbalance |-> imbalance,
    selectedPair |-> selectedPair, renderedPair |-> renderedPair,
    connectionStatus |-> connectionStatus, graceTimers |-> graceTimers,
    settleTasks |-> settleTasks, nextTimers |-> nextTimers, rafQueue |-> rafQueue,
    sinceAdmit |-> sinceAdmit, countSince |-> countSince, faults |-> faults,
    requests |-> requests, lastRequest |-> lastRequest, admits |-> admits,
    mounted |-> mounted,
    ev |-> NoEv, overflow |-> FALSE ]

\* A socket nothing can reach any more: its slot is reused.
Inert(s, w) ==
  /\ w # s.wsRef
  /\ s.ws[w].ctimer = NoTimer
  /\ s.ws[w].ping = NoTimer
  /\ \/ ~s.ws[w].att
     \/ s.ws[w].st = "CLOSED" /\ s.ws[w].cev = 0 /\ ~s.ws[w].eev

\* Inert sockets are dropped and the others moved to the lowest slots, in order.
Collect(s) ==
  LET live == { w \in Slots : s.ws[w].st # "FREE" /\ ~Inert(s, w) }
      rank(w) == Cardinality({ x \in live : x <= w })
      at(k) == CHOOSE w \in live : rank(w) = k
      move(w) == IF w \in live THEN rank(w) ELSE 0
  IN [s EXCEPT !.ws = [k \in Slots |-> IF k <= Cardinality(live) THEN s.ws[at(k)] ELSE FreeWs],
               !.wsRef = move(@),
               !.updateTimeoutRef = move(@)]

FreeSlots(s) == { w \in Slots : s.ws[w].st = "FREE" }

\* The step s is committed unless it needed more than the bounds allow.
Commit(s) ==
  /\ ~s.overflow
  /\ LET c == Collect(s) IN
     /\ ws' = c.ws
     /\ wsRef' = c.wsRef
     /\ reconnectTimeoutRef' = c.reconnectTimeoutRef
     /\ orphanReconnects' = c.orphanReconnects
     /\ updateTimeoutRef' = c.updateTimeoutRef
     /\ lastUpdateRef' = c.lastUpdateRef
     /\ prevOrderBookRef' = c.prevOrderBookRef
     /\ connectionQueueRef' = c.connectionQueueRef
     /\ isProcessingRef' = c.isProcessingRef
     /\ performanceRef' = c.performanceRef
     /\ orderBookData' = c.orderBookData
     /\ spreadHistory' = c.spreadHistory
     /\ imbalance' = c.imbalance
     /\ selectedPair' = c.selectedPair
     /\ renderedPair' = c.renderedPair
     /\ connectionStatus' = c.connectionStatus
     /\ graceTimers' = c.graceTimers
     /\ settleTasks' = c.settleTasks
     /\ nextTimers' = c.nextTimers
     /\ rafQueue' = c.rafQueue
     /\ sinceAdmit' = c.sinceAdmit
     /\ countSince' = c.countSince
     /\ faults' = c.faults
     /\ requests' = c.requests
     /\ lastRequest' = c.lastRequest
     /\ admits' = c.admits
     /\ scenario' = scenario
     /\ mounted' = c.mounted
     /\ statusBefore' = connectionStatus
     /\ job' = job
     /\ ev' = c.ev

RemoveAt(seq, i) == SubSeq(seq, 1, i - 1) \o SubSeq(seq, i + 1, Len(seq))

\* ------------------------------------------------------------ cleanup
\* The connection that was current stops being so: what was derived from it
\* and is still in flight is marked (history only).
Supersede(s) ==
  [s EXCEPT !.rafQueue = [i \in 1..Len(s.rafQueue) |-> [s.rafQueue[i] EXCEPT !.stale = TRUE]],
            !.prevOrderBookRef = IF @ = NoBook THEN @ ELSE [@ EXCEPT !.stale = TRUE]]

\* cleanup past its guard (lines 246-281)
CleanupBody(s) ==
  LET w == s.wsRef
      u == s.updateTimeoutRef
      ws1 == IF w = 0 THEN s.ws
             ELSE [s.ws EXCEPT ![w].att = FALSE,
                               ![w].st = IF @ = "OPEN" THEN "CLOSING" ELSE @]
      ws2 == IF u = 0 THEN ws1 ELSE [ws1 EXCEPT ![u].ping = NoTimer]
      s1 == IF w = 0 THEN s ELSE Supersede(s)
  IN [s1 EXCEPT !.ws = ws2,
                !.wsRef = 0,
                !.reconnectTimeoutRef = NoTimer,
                !.updateTimeoutRef = 0,
                !.lastUpdateRef = Old,
                !.prevOrderBookRef = NoBook,
                !.performanceRef = [lastCleanup |-> 0, messageCount |-> 0,
                                    lastMessageTime |-> Old],
                !.countSince = 0,
                !.connectionStatus = "disconnected"]

\* cleanup (lines 242-282): a call within 1s of the last effective one returns at once
cleanup(s) ==
  LET s0 == IF s.wsRef = 0 THEN s ELSE [s EXCEPT !.ws[s.wsRef].cu = TRUE]
  IN IF s0.performanceRef.lastCleanup < CleanupGuard THEN s0 ELSE CleanupBody(s0)

\* ----------------------------------------------------- setupWebSocket
\* setupWebSocket of the render whose selectedPair is pairSymbol (lines 470-549)
setupWebSocket(s, pairSymbol) ==
  LET s1 == Collect(cleanup(s))
      free == FreeSlots(s1)
  IN IF free = {} THEN [s1 EXCEPT !.overflow = TRUE]
     ELSE LET w == CHOOSE x \in free : \A y \in free : x <= y
              s2 == IF s1.wsRef = 0 THEN s1 ELSE Supersede(s1)
          IN [s2 EXCEPT !.connectionStatus = "connecting",
                        !.ws[w] = [st |-> "CONNECTING", att |-> TRUE, pair |-> pairSymbol,
                                   url |-> WsUrl(pairSymbol), ctimer |-> ConnectTimeout,
                                   ping |-> NoTimer, cev |-> 0, eev |-> FALSE, cu |-> FALSE,
                                   stall |-> FALSE],
                        !.wsRef = w]

\* WebSocket.close() called by the page on a socket whose handlers stay attached
\* (reconnectWebSocket line 554): the close event follows later.
WsCloseCall(s, w) ==
  CASE s.ws[w].st = "OPEN" -> [s EXCEPT !.ws[w].st = "CLOSING", !.ws[w].cev = 1005]
    [] s.ws[w].st = "CONNECTING" ->
         [s EXCEPT !.ws[w].st = "CLOSING", !.ws[w].cev = 1006, !.ws[w].eev = TRUE]
    [] OTHER -> s

\* reconnectWebSocket of the render whose selectedPair is pairSymbol (lines 552-557)
reconnectWebSocket(s, pairSymbol) ==
  setupWebSocket(IF s.wsRef # 0 THEN WsCloseCall(s, s.wsRef) ELSE s, pairSymbol)

\* reconnectTimeoutRef.current = setTimeout(() => reconnectRef.current?.(), 3000)
ScheduleReconnect(s) ==
  LET orph == IF s.reconnectTimeoutRef = NoTimer THEN s.orphanReconnects
              ELSE Append(s.orphanReconnects, s.reconnectTimeoutRef)
  IN [s EXCEPT !.orphanReconnects = orph,
               !.reconnectTimeoutRef = ReconnectDelay,
               !.overflow = @ \/ Len(orph) > MaxOrphans]

\* --------------------------------------------------------------- Init
\* The environments explored: how many clicks, transport faults and admitted
\* updates a run holds, whether the user leaves the page (unmount), or (feed)
\* a stream that delivers a non-empty snapshot at least once in every Tick, as
\* the 100ms depth stream does.
Scenarios ==
  { [requests |-> MaxReq, faults |-> 0, admits |-> 0, feed |-> FALSE, unmount |-> FALSE],
    [requests |-> 1, faults |-> 0, admits |-> MaxAdmit - 1, feed |-> FALSE, unmount |-> FALSE],
    [requests |-> 1, faults |-> MaxFaults, admits |-> 0, feed |-> FALSE, unmount |-> FALSE],
    [requests |-> 0, faults |-> MaxFaults, admits |-> MaxAdmit, feed |-> FALSE,
     unmount |-> FALSE],
    [requests |-> 0, faults |-> 1, admits |-> 0, feed |-> TRUE, unmount |-> FALSE],
    [requests |-> 0, faults |-> MaxFaults, admits |-> 0, feed |-> FALSE, unmount |-> TRUE] }

\* The state after the mount effect (lines 611-620) ran setupWebSocket for
\* tradingPairs[0].
PageInit ==
  /\ ws = [w \in Slots |->
             IF w = 1
               THEN [st |-> "CONNECTING", att |-> TRUE, pair |-> tradingPairs[1].symbol,
                     url |-> WsUrl(tradingPairs[1].symbol), ctimer |-> ConnectTimeout,
                     ping |-> NoTimer, cev |-> 0, eev |-> FALSE, cu |-> FALSE,
                     stall |-> FALSE]
               ELSE FreeWs]
  /\ wsRef = 1
  /\ reconnectTimeoutRef = NoTimer
  /\ orphanReconnects = << >>
  /\ updateTimeoutRef = 0
  /\ lastUpdateRef = Old
  /\ prevOrderBookRef = NoBook
  /\ connectionQueueRef = << >>
  /\ isProcessingRef = FALSE
  /\ performanceRef = [lastCleanup |-> 0, messageCount |-> 0, lastMessageTime |-> Old]
  /\ orderBookData = NoBook
  /\ spreadHistory = << >>
  /\ imbalance = "zero"
  /\ selectedPair = tradingPairs[1].symbol
  /\ renderedPair = tradingPairs[1].symbol
  /\ connectionStatus = "connecting"
  /\ graceTimers = << >>
  /\ settleTasks = << >>
  /\ nextTimers = << >>
  /\ rafQueue = << >>
  /\ sinceAdmit = Old
  /\ countSince = 0
  /\ faults = 0
  /\ requests = 0
  /\ lastRequest = tradingPairs[1].symbol
  /\ admits = 0
  /\ scenario \in Scenarios
  /\ mounted = TRUE
  /\ statusBefore = "disconnected"
  /\ ev = [kind |-> "mount"]

Init ==
  /\ PageInit
  /\ job = NoJob


\* ----------------------------------------------------- updateOrderBook
\* updateOrderBook without its return for an update that has no level left
updateOrderBookAlways(s, levels) ==
  IF s.lastUpdateRef < ThrottleMs
    THEN [s EXCEPT !.ev = [kind |-> "ignored"]]
    ELSE
      LET w == s.wsRef
          count == IF s.performanceRef.messageCount > FloodLimit
                     THEN s.performanceRef.messageCount
                     ELSE s.performanceRef.messageCount + 1
          timeSinceLastMessage == s.performanceRef.lastMessageTime
          admitted == [kind |-> "admitted", pair |-> s.ws[w].pair, closed |-> s.ws[w].cu,
                       early |-> (s.sinceAdmit < ThrottleMs), flood |-> FALSE,
                       window |-> FALSE, guarded |-> FALSE]
          s1 == [s EXCEPT !.lastUpdateRef = 0,
                          !.sinceAdmit = 0,
                          !.admits = IF @ < MaxAdmit THEN @ + 1 ELSE @,
                          !.performanceRef.messageCount = count,
                          !.performanceRef.lastMessageTime = 0,
                          !.ev = admitted]
      IN IF count > FloodLimit /\ timeSinceLastMessage < FloodGap
           THEN LET s2 == cleanup(s1)
                IN [s2 EXCEPT !.graceTimers = Append(@, GraceDelay),
                              !.overflow = @ \/ Len(s2.graceTimers) >= MaxTasks,
                              !.ev = [admitted EXCEPT !.flood = TRUE,
                                        !.window = (s.countSince <= FloodGap),
                                        !.guarded = (s2.wsRef # 0)]]
           ELSE
             LET s2 == IF timeSinceLastMessage > ResetGap
                         THEN [s1 EXCEPT !.performanceRef.messageCount = 0,
                                         !.countSince = 0]
                         ELSE s1
                 book == [sym |-> s.ws[w].url,
                          prev |-> IF s.prevOrderBookRef = NoBook THEN "none"
                                   ELSE IF s.prevOrderBookRef.stale THEN "stale" ELSE "cur",
                          stale |-> FALSE]
             IN [s2 EXCEPT !.prevOrderBookRef = book,
                           !.rafQueue = Append(@, book),
                           !.overflow = @ \/ Len(s2.rafQueue) >= MaxRaf]

\* updateOrderBook of the socket that is wsRef.current (lines 366-434); levels is
\* "some" when processOrders keeps at least one level of either side, else "empty".
updateOrderBook(s, levels) ==
  IF s.lastUpdateRef < ThrottleMs
    THEN [s EXCEPT !.ev = [kind |-> "ignored"]]
    ELSE
      LET w == s.wsRef
          count == IF s.performanceRef.messageCount > FloodLimit
                     THEN s.performanceRef.messageCount
                     ELSE s.performanceRef.messageCount + 1
          timeSinceLastMessage == s.performanceRef.lastMessageTime
          admitted == [kind |-> "admitted", pair |-> s.ws[w].pair, closed |-> s.ws[w].cu,
                       early |-> (s.sinceAdmit < ThrottleMs), flood |-> FALSE,
                       window |-> FALSE, guarded |-> FALSE]
          s1 == [s EXCEPT !.lastUpdateRef = 0,
                          !.sinceAdmit = 0,
                          !.admits = IF @ < MaxAdmit THEN @ + 1 ELSE @,
                          !.performanceRef.messageCount = count,
                          !.performanceRef.lastMessageTime = 0,
                          !.ev = admitted]
      IN IF count > FloodLimit /\ timeSinceLastMessage < FloodGap
           THEN LET s2 == cleanup(s1)
                IN [s2 EXCEPT !.graceTimers = Append(@, GraceDelay),
                              !.overflow = @ \/ Len(s2.graceTimers) >= MaxTasks,
                              !.ev = [admitted EXCEPT !.flood = TRUE,
                                        !.window = (s.countSince <= FloodGap),
                                        !.guarded = (s2.wsRef # 0)]]
           ELSE
             LET s2 == IF timeSinceLastMessage > ResetGap
                         THEN [s1 EXCEPT !.performanceRef.messageCount = 0,
                                         !.countSince = 0]
                         ELSE s1
                 book == [sym |-> s.ws[w].url,
                          prev |-> IF s.prevOrderBookRef = NoBook THEN "none"
                                   ELSE IF s.prevOrderBookRef.stale THEN "stale" ELSE "cur",
                          stale |-> FALSE]
             IN IF levels = "empty" THEN s2
                ELSE [s2 EXCEPT !.prevOrderBookRef = book,
                                !.rafQueue = Append(@, book),
                                !.overflow = @ \/ Len(s2.rafQueue) >= MaxRaf]

\* event.data: text that JSON.parse rejects ("unparseable"), that parses to a
\* falsy value ("null"), a ping, a depthUpdate (tagged with a symbol or not, its
\* b and a arrays or not), a snapshot, or any other object ("other").
Messages ==
  { [kind |-> "unparseable", s |-> "none", levels |-> "empty"],
    [kind |-> "null", s |-> "none", levels |-> "empty"],
    [kind |-> "ping", s |-> "none", levels |-> "empty"],
    [kind |-> "other", s |-> "none", levels |-> "empty"] }
  \cup [kind : {"depthUpdate"}, s : Symbols \cup {"none"},
        levels : {"some", "empty", "notarray"}]
  \cup [kind : {"snapshot"}, s : {"none"}, levels : {"some", "empty"}]

\* handleMessage with its last branch taken by every parsed object
handleMessageAnyObject(s, m) ==
  LET currentSymbol == ToLowerCase(FindPair(s.ws[s.wsRef].pair).binanceSymbol)
      dropped == [s EXCEPT !.ev = [kind |-> "ignored"]]
  IN CASE m.kind = "unparseable" -> dropped
       [] m.kind = "null" -> dropped
       [] m.kind = "ping" -> dropped
       [] m.kind = "depthUpdate" ->
            IF m.s # "none" /\ ToLowerCase(m.s) # currentSymbol THEN dropped
            ELSE IF m.levels = "notarray" THEN dropped
            ELSE updateOrderBook(s, m.levels)
       [] OTHER ->
            IF UrlIncludes(s.ws[s.wsRef].url, currentSymbol)
              THEN updateOrderBook(s, IF m.kind = "snapshot" THEN m.levels ELSE "empty")
              ELSE dropped

\* handleMessage of the render that created wsRef.current (lines 437-467)
handleMessage(s, m) ==
  LET currentSymbol == ToLowerCase(FindPair(s.ws[s.wsRef].pair).binanceSymbol)
      dropped == [s EXCEPT !.ev = [kind |-> "ignored"]]
  IN CASE m.kind = "unparseable" -> dropped
       [] m.kind = "null" -> dropped
       [] m.kind = "ping" -> dropped
       [] m.kind = "depthUpdate" ->
            IF m.s # "none" /\ ToLowerCase(m.s) # currentSymbol THEN dropped
            ELSE IF m.levels = "notarray" THEN dropped
            ELSE updateOrderBook(s, m.levels)
       [] m.kind = "snapshot" ->
            IF UrlIncludes(s.ws[s.wsRef].url, currentSymbol)
              THEN updateOrderBook(s, m.levels) ELSE dropped
       [] OTHER -> dropped

\* ws.onmessage (lines 514-519)
onmessage(s, w, m) ==
  IF w = s.wsRef THEN handleMessage(s, m) ELSE [s EXCEPT !.ev = [kind |-> "ignored"]]

\* ------------------------------------------------- the switch sequencer
\* processConnectionQueue of the render whose selectedPair is pairSymbol, up to
\* its await (lines 565-582)
processConnectionQueue(s, pairSymbol) ==
  IF s.isProcessingRef \/ Len(s.connectionQueueRef) = 0 THEN s
  ELSE LET nextPair == s.connectionQueueRef[1]
           s1 == cleanup([s EXCEPT !.isProcessingRef = TRUE])
       IN [s1 EXCEPT !.orderBookData = NoBook,
                     !.spreadHistory = << >>,
                     !.imbalance = "zero",
                     !.selectedPair = FindPair(nextPair).symbol,
                     !.settleTasks = Append(@, [pair |-> pairSymbol, next |-> nextPair,
                                                rem |-> SettleDelay]),
                     !.overflow = @ \/ Len(s1.settleTasks) >= MaxTasks]

\* handlePairChange without the test for the pair already selected
handlePairChangeAlways(s, value) ==
  IF FindPair(value).symbol = "undefined"
    THEN s
    ELSE LET s1 == [s EXCEPT !.connectionQueueRef = Append(@, value),
                             !.overflow = @ \/ Len(s.connectionQueueRef) >= MaxQueue]
         IN IF ~s1.isProcessingRef THEN processConnectionQueue(s1, s1.renderedPair) ELSE s1

\* handlePairChange of the committed render (lines 597-608)
handlePairChange(s, value) ==
  IF FindPair(value).symbol = "undefined" \/ FindPair(value).symbol = s.renderedPair
    THEN s
    ELSE LET s1 == [s EXCEPT !.connectionQueueRef = Append(@, value),
                             !.overflow = @ \/ Len(s.connectionQueueRef) >= MaxQueue]
         IN IF ~s1.isProcessingRef THEN processConnectionQueue(s1, s1.renderedPair) ELSE s1

\* processConnectionQueue after its await: setupWebSocket of the same (by now
\* possibly stale) render, then the finally block (lines 583-593)
settleDone(s, i) ==
  LET task == s.settleTasks[i]
      s1 == setupWebSocket([s EXCEPT !.settleTasks = RemoveAt(@, i)], task.pair)
      queue == IF Len(s1.connectionQueueRef) = 0 THEN << >> ELSE Tail(s1.connectionQueueRef)
  IN [s1 EXCEPT !.connectionQueueRef = queue,
                !.isProcessingRef = FALSE,
                !.nextTimers = IF Len(queue) > 0
                                 THEN Append(@, [pair |-> task.pair, rem |-> NextDelay])
                                 ELSE @,
                !.overflow = @ \/ (Len(queue) > 0 /\ Len(s1.nextTimers) >= MaxTasks),
                !.ev = [kind |-> "applied", target |-> task.next,
                        removed |-> IF Len(s1.connectionQueueRef) = 0 THEN "none"
                                    ELSE s1.connectionQueueRef[1]]]

\* A re-render after selectedPair changed: the mount effect's cleanup runs, then
\* the effects of the new render (lines 560-562, 611-620)
render(s) ==
  LET s1 == cleanup(cleanup(s))
      s2 == [s1 EXCEPT !.connectionQueueRef = << >>,
                       !.isProcessingRef = FALSE,
                       !.renderedPair = s.selectedPair]
  IN [setupWebSocket(s2, s.selectedPair) EXCEPT !.ev = [kind |-> "render"]]

\* The component unmounts: the cleanup of the mount effect and the cleanup
\* function setupWebSocket returned (lines 546-548, 613-619)
unmount(s) ==
  LET s1 == cleanup(cleanup(s))
  IN [s1 EXCEPT !.connectionQueueRef = << >>,
                !.isProcessingRef = FALSE,
                !.mounted = FALSE,
                !.ev = [kind |-> "unmount"]]

\* ------------------------------------------------------ timer callbacks
\* connectionTimeout of socket w (lines 481-488)
connectionTimeout(s, w) ==
  LET s1 == [s EXCEPT !.ws[w].ctimer = NoTimer]
  IN IF s.ws[w].st # "OPEN"
       THEN LET s2 == [cleanup(s1) EXCEPT !.connectionStatus = "error"]
            IN [ScheduleReconnect(s2) EXCEPT
                  !.ev = [kind |-> "timeout", ready |-> FALSE, current |-> (s.wsRef = w),
                          aborted |-> (s2.wsRef # w /\ ~s2.ws[w].att)]]
       ELSE [s1 EXCEPT !.ev = [kind |-> "timeout", ready |-> TRUE, current |-> (s.wsRef = w),
                               aborted |-> FALSE]]

\* graceTimeout without its call of reconnectRef.current
graceTimeoutNoReopen(s, i) ==
  [s EXCEPT !.graceTimers = RemoveAt(@, i),
            !.ev = [kind |-> "grace", reopened |-> (s.wsRef = 0)]]

\* the flood guard's setTimeout callback (lines 381-385)
graceTimeout(s, i) ==
  LET s1 == [s EXCEPT !.graceTimers = RemoveAt(@, i)]
      s2 == IF s1.wsRef = 0 THEN reconnectWebSocket(s1, s1.renderedPair) ELSE s1
  IN [s2 EXCEPT !.ev = [kind |-> "grace", reopened |-> (s1.wsRef = 0)]]

\* pingInterval of socket w (lines 496-509); send on an open socket does not throw
pingInterval(s, w) ==
  IF s.ws[w].st = "OPEN"
    THEN [s EXCEPT !.ws[w].ping = PingInterval,
                   !.ev = [kind |-> "ping", current |-> (s.wsRef = w)]]
    ELSE [s EXCEPT !.ws[w].ping = NoTimer,
                   !.updateTimeoutRef = IF @ = w THEN 0 ELSE @,
                   !.ev = [kind |-> "pingStopped"]]

\* ---------------------------------------------------- transport events
\* ws.onopen (lines 490-512)
onopen(s, w) ==
  [s EXCEPT !.ws[w].ctimer = NoTimer,
            !.ws[w].ping = PingInterval,
            !.updateTimeoutRef = w,
            !.connectionStatus = "connected"]

\* ws.onerror (lines 521-527)
onerror(s, w) ==
  LET s1 == cleanup([s EXCEPT !.ws[w].ctimer = NoTimer])
  IN ScheduleReconnect([s1 EXCEPT !.connectionStatus = "error"])

\* ws.onclose (lines 529-535)
onclose(s, w, code) ==
  LET s1 == cleanup([s EXCEPT !.ws[w].ctimer = NoTimer])
  IN IF code # NormalClose THEN ScheduleReconnect(s1) ELSE s1


\* -------------------------------------------------------------- actions
AnyDue ==
  \/ \E w \in Slots : Due(ws[w].ctimer) \/ Due(ws[w].ping)
  \/ Due(reconnectTimeoutRef)
  \/ \E i \in 1..Len(orphanReconnects) : Due(orphanReconnects[i])
  \/ \E i \in 1..Len(graceTimers) : Due(graceTimers[i])
  \/ \E i \in 1..Len(settleTasks) : Due(settleTasks[i].rem)
  \/ \E i \in 1..Len(nextTimers) : Due(nextTimers[i].rem)

\* The time left of the pending timers.
Pending ==
  { ws[w].ctimer : w \in Slots } \cup { ws[w].ping : w \in Slots }
  \cup { reconnectTimeoutRef }
  \cup { orphanReconnects[i] : i \in 1..Len(orphanReconnects) }
  \cup { graceTimers[i] : i \in 1..Len(graceTimers) }
  \cup { settleTasks[i].rem : i \in 1..Len(settleTasks) }
  \cup { nextTimers[i].rem : i \in 1..Len(nextTimers) }

AllOld ==
  /\ lastUpdateRef = Old /\ performanceRef.lastCleanup = Old
  /\ performanceRef.lastMessageTime = Old /\ sinceAdmit = Old /\ countSince = Old

\* The time that passes in one step: Tick milliseconds while some timestamp is
\* young enough for the code to tell its age; otherwise up to the next timer.
Step ==
  LET left == Pending \ {NoTimer}
  IN IF AllOld /\ left # {} THEN CHOOSE d \in left : \A e \in left : d <= e ELSE Tick

elapse(s, d) ==
  [s EXCEPT
     !.ws = [w \in Slots |-> [s.ws[w] EXCEPT !.ctimer = Run(@, d), !.ping = Run(@, d)]],
     !.reconnectTimeoutRef = Run(@, d),
     !.orphanReconnects = [i \in 1..Len(s.orphanReconnects) |-> Run(s.orphanReconnects[i], d)],
     !.graceTimers = [i \in 1..Len(s.graceTimers) |-> Run(s.graceTimers[i], d)],
     !.settleTasks = [i \in 1..Len(s.settleTasks) |-> [s.settleTasks[i] EXCEPT !.rem = Run(@, d)]],
     !.nextTimers = [i \in 1..Len(s.nextTimers) |-> [s.nextTimers[i] EXCEPT !.rem = Run(@, d)]],
     !.lastUpdateRef = Age(@, d),
     !.performanceRef = [lastCleanup |-> Age(s.performanceRef.lastCleanup, d),
                         messageCount |-> s.performanceRef.messageCount,
                         lastMessageTime |-> Age(s.performanceRef.lastMessageTime, d)],
     !.sinceAdmit = Age(@, d),
     !.countSince = Age(@, d),
     !.ev = [kind |-> "tick"]]

\* Time passes.  A due timer fires first; the browser runs a pending animation frame and delivers the error and close
\* events of a close() call before Tick milliseconds have passed, and a
\* transport that is not stalled has become ready by then.
Tick_ ==
  /\ ~AnyDue
  /\ rafQueue = << >>
  /\ \A w \in Slots : ws[w].cev = 0 /\ ~ws[w].eev
  /\ \A w \in Slots : ws[w].st = "CONNECTING" => ws[w].stall
  /\ scenario.feed /\ wsRef # 0 /\ lastUpdateRef >= ThrottleMs => ws[wsRef].st # "OPEN"
  /\ Commit(elapse(State, Step))

\* onClick of a pair button (line 700).  The click is a discrete event: React
\* commits the re-render that setSelectedPair asked for, and runs its effects,
\* before the event is over.
click(s, value) ==
  LET s1 == handlePairChange(s, value)
  IN IF s1.selectedPair # s1.renderedPair THEN render(s1) ELSE s1

\* The user clicks a pair button.
RequestSwitch ==
  \E value \in Symbols :
    /\ mounted
    /\ requests < scenario.requests
    /\ value # renderedPair
    /\ Commit([click(State, value) EXCEPT
                 !.requests = @ + 1,
                 !.lastRequest = value,
                 !.ev = [kind |-> "request", value |-> value,
                         reset |-> (performanceRef.lastCleanup >= CleanupGuard)]])

\* The user leaves the page.
Unmount ==
  /\ mounted /\ scenario.unmount
  /\ Commit(unmount(State))

SettleDone ==
  \E i \in 1..Len(settleTasks) :
    /\ Due(settleTasks[i].rem)
    /\ Commit(settleDone(State, i))

\* The chained setTimeout(processConnectionQueue, 500) of line 591, followed by
\* the re-render it asks for.  The timer is never armed (QueueAtRest), so Next
\* has no use for this action.
NextTimeout ==
  \E i \in 1..Len(nextTimers) :
    /\ Due(nextTimers[i].rem)
    /\ LET s1 == processConnectionQueue([State EXCEPT !.nextTimers = RemoveAt(@, i)],
                                         nextTimers[i].pair)
       IN Commit([(IF s1.selectedPair # s1.renderedPair THEN render(s1) ELSE s1)
                    EXCEPT !.ev = [kind |-> "next"]])

ConnectionTimeout ==
  \E w \in Slots :
    /\ Due(ws[w].ctimer)
    /\ Commit(connectionTimeout(State, w))

ReconnectTimeout ==
  /\ Due(reconnectTimeoutRef)
  /\ Commit([reconnectWebSocket([State EXCEPT !.reconnectTimeoutRef = NoTimer], renderedPair)
               EXCEPT !.ev = [kind |-> "reconnect"]])

OrphanReconnectTimeout ==
  \E i \in 1..Len(orphanReconnects) :
    /\ Due(orphanReconnects[i])
    /\ Commit([reconnectWebSocket([State EXCEPT !.orphanReconnects = RemoveAt(@, i)],
                                  renderedPair)
                 EXCEPT !.ev = [kind |-> "reconnect"]])

GraceTimeout ==
  \E i \in 1..Len(graceTimers) :
    /\ Due(graceTimers[i])
    /\ Commit(graceTimeout(State, i))

PingTimeout ==
  \E w \in Slots :
    /\ Due(ws[w].ping)
    /\ Commit(pingInterval(State, w))

\* The transport of socket w becomes ready.
WsOpen ==
  \E w \in Slots :
    /\ ws[w].st = "CONNECTING"
    /\ LET s1 == [State EXCEPT !.ws[w].st = "OPEN"]
       IN Commit([(IF ws[w].att THEN onopen(s1, w) ELSE s1) EXCEPT
                    !.ev = [kind |-> "open", att |-> ws[w].att, closed |-> ws[w].cu]])

\* The transport of socket w stalls: it becomes ready late or never.
WsStall ==
  \E w \in Slots :
    /\ ws[w].st = "CONNECTING" /\ ~ws[w].stall
    /\ faults < scenario.faults
    /\ Commit([State EXCEPT !.ws[w].stall = TRUE, !.faults = @ + 1,
                             !.ev = [kind |-> "stall"]])

\* The transport of socket w fails, or the error event of a close() call made
\* while connecting is delivered: the error event, with the close event to follow.
WsError ==
  \E w \in Slots :
    /\ \/ ws[w].st \in {"CONNECTING", "OPEN"} /\ faults < scenario.faults
       \/ ws[w].eev
    /\ LET s1 == [State EXCEPT !.ws[w].st = "CLOSED", !.ws[w].eev = FALSE,
                               !.ws[w].cev = 1006,
                               !.faults = IF ws[w].eev THEN @ ELSE @ + 1]
       IN Commit([(IF ws[w].att THEN onerror(s1, w) ELSE s1) EXCEPT
                    !.ev = [kind |-> "error", att |-> ws[w].att, current |-> (wsRef = w),
                            closed |-> ws[w].cu]])

\* The pending close event of socket w is delivered.
WsCloseEvent ==
  \E w \in Slots :
    /\ ws[w].cev # 0 /\ ~ws[w].eev
    /\ LET s1 == [State EXCEPT !.ws[w].st = "CLOSED", !.ws[w].cev = 0]
       IN Commit([(IF ws[w].att THEN onclose(s1, w, ws[w].cev) ELSE s1) EXCEPT
                    !.ev = [kind |-> "close", att |-> ws[w].att, code |-> ws[w].cev,
                            current |-> (wsRef = w), requested |-> TRUE,
                            closed |-> ws[w].cu]])

CloseCodes == {1000, 1001}

\* The server closes the open socket w with a close frame.
WsServerClose ==
  \E w \in Slots, code \in CloseCodes :
    /\ ws[w].st = "OPEN" /\ faults < scenario.faults
    /\ LET s1 == [State EXCEPT !.ws[w].st = "CLOSED", !.faults = @ + 1]
       IN Commit([(IF ws[w].att THEN onclose(s1, w, code) ELSE s1) EXCEPT
                    !.ev = [kind |-> "close", att |-> ws[w].att, code |-> code,
                            current |-> (wsRef = w), requested |-> FALSE,
                            closed |-> ws[w].cu]])

\* The open socket w delivers a message.
Deliver ==
  \E w \in Slots, m \in Messages :
    /\ ws[w].st = "OPEN" /\ ws[w].att
    /\ scenario.feed \/ admits < scenario.admits
    /\ scenario.feed => m.levels = "some"
    /\ onmessage(State, w, m).ev.kind # "ignored"
    /\ Commit(onmessage(State, w, m))

\* slice(-59) of the spread history
Last59(h) == SubSeq(h, Len(h) - (HistCap - 1) + 1, Len(h))

\* setSpreadHistory's updater without the eviction
PushSpreadKeepAll(h, entry) == Append(h, entry)

\* setSpreadHistory's updater (lines 425-428)
PushSpread(h, entry) ==
  IF Len(h) >= HistCap THEN Append(Last59(h), entry) ELSE Append(h, entry)

RECURSIVE PushAll(_, _)
PushAll(h, q) == IF q = << >> THEN h ELSE PushAll(PushSpread(h, Head(q).sym), Tail(q))

\* An animation frame whose callbacks set the order book and the spread
\* history, not the imbalance
AnimationFrameNoImbalance ==
  /\ Len(rafQueue) > 0
  /\ Commit([State EXCEPT
       !.orderBookData = [rafQueue[Len(rafQueue)] EXCEPT !.stale = FALSE],
       !.spreadHistory = PushAll(@, rafQueue),
       !.rafQueue = << >>,
       !.ev = [kind |-> "publish",
               stale |-> \E i \in 1..Len(rafQueue) : rafQueue[i].stale]])

\* An animation frame: every pending requestAnimationFrame callback runs, in
\* order (lines 423-430).
AnimationFrame ==
  /\ Len(rafQueue) > 0
  /\ Commit([State EXCEPT
       !.orderBookData = [rafQueue[Len(rafQueue)] EXCEPT !.stale = FALSE],
       !.spreadHistory = PushAll(@, rafQueue),
       !.imbalance = rafQueue[Len(rafQueue)].sym,
       !.rafQueue = << >>,
       !.ev = [kind |-> "publish",
               stale |-> \E i \in 1..Len(rafQueue) : rafQueue[i].stale]])

\* Between handlers the switch queue is empty, nothing is marked as being
\* processed and no chained run is pending: the re-render of a click has
\* reset them.
QueueAtRest ==
  connectionQueueRef = << >> /\ ~isProcessingRef /\ nextTimers = << >>

Next ==
  \/ Tick_
  \/ RequestSwitch
  \/ Unmount
  \/ SettleDone
  \/ ConnectionTimeout
  \/ ReconnectTimeout
  \/ OrphanReconnectTimeout
  \/ GraceTimeout
  \/ PingTimeout
  \/ WsOpen
  \/ WsStall
  \/ WsError
  \/ WsCloseEvent
  \/ WsServerClose
  \/ Deliver
  \/ AnimationFrame

Spec == Init /\ [][Next]_vars

\* The page under a steady feed, left alone by the user: the runs in which the
\* flood guard can trip.
FeedInit == Init /\ scenario.feed

FeedNext ==
  \/ Tick_
  \/ ConnectionTimeout
  \/ ReconnectTimeout
  \/ OrphanReconnectTimeout
  \/ GraceTimeout
  \/ PingTimeout
  \/ WsOpen
  \/ WsStall
  \/ WsError
  \/ WsCloseEvent
  \/ WsServerClose
  \/ Deliver
  \/ AnimationFrame

FeedSpec == FeedInit /\ [][FeedNext]_vars

\* ---------------------------------------------------------------- claims
\* C1: what a requestAnimationFrame callback publishes (snapshot, spread
\* history, imbalance) never comes from a message of a connection that a
\* reconnect or a switch has superseded by the time of the publish.
C1_NoStalePublish ==
  ev.kind = "publish" => ~ev.stale

\* C2: once every application has completed and nothing is queued, the page is
\* on the instrument requested last: no request was lost on the way, and the
\* current connection is the one of the last request.
C2_RequestsApplied ==
  settleTasks = << >> /\ nextTimers = << >> /\ connectionQueueRef = << >> =>
    /\ selectedPair = lastRequest
    /\ wsRef # 0 => ws[wsRef].pair = lastRequest

\* C3: at most one switch request is being applied (in its settle wait) at a
\* time, and the request taken off the queue when an application completes is
\* the one that was applied.
C3_OneInFlight ==
  /\ Len(settleTasks) <= 1
  /\ ev.kind = "applied" => ev.removed = ev.target

\* C4: when the application of a switch to X completes, the current connection
\* is the one opened for X (its address holds X's feed symbol), and every
\* update admitted is handled with the selected instrument as the active one.
C4_ConnectedToTarget ==
  /\ ev.kind = "applied" => wsRef # 0 /\ ws[wsRef].url = WsUrl(ev.target)
  /\ ev.kind = "admitted" => ev.pair = selectedPair

C6_MinInterval ==
  ev.kind = "admitted" => ~ev.early

\* C7: the flood guard trips only when the more than 100 messages it counted
\* all arrived within the 1s window.
C7_FloodWithinWindow ==
  ev.kind = "admitted" /\ ev.flood => ev.window

\* C8: when the flood guard trips, cleanup is not skipped by its 1s guard: the
\* connection is torn down and the 1s grace timer is armed; when that timer
\* fires there is a connection again, and if it had to open one the state is
\* connecting.
C8_FloodReopens ==
  /\ ev.kind = "admitted" /\ ev.flood =>
       /\ ~ev.guarded
       /\ wsRef = 0
       /\ connectionStatus = "disconnected"
       /\ \E i \in 1..Len(graceTimers) : graceTimers[i] = GraceDelay
  /\ ev.kind = "grace" =>
       /\ wsRef # 0
       /\ ev.reopened => ws[wsRef].st = "CONNECTING" /\ connectionStatus = "connecting"

\* C8, its case: the grace timer fired and opened a new connection.
C8_Witness ==
  ev.kind = "grace" /\ ev.reopened

\* C9: the 5s timer of a connection attempt fires only for the current attempt
\* while its transport is not ready.
C9_TimeoutOnlyUnready ==
  ev.kind = "timeout" => ev.current /\ ~ev.ready

\* C10: a transport error of the current connection, or a close of it that the
\* page did not ask for, arms the 3s reconnect timer, whatever the close code.
C10_ReconnectScheduled ==
  /\ ev.kind = "error" /\ ev.att /\ ev.current => reconnectTimeoutRef = ReconnectDelay
  /\ ev.kind = "close" /\ ev.att /\ ev.current /\ ~ev.requested =>
       reconnectTimeoutRef = ReconnectDelay

\* ------------------------------------------------- claims C11 to C16
\* Reconnect timers that are armed, whether or not reconnectTimeoutRef still
\* holds their handle.
PendingReconnects ==
  Len(orphanReconnects) + (IF reconnectTimeoutRef = NoTimer THEN 0 ELSE 1)

\* C11: once the component has been torn down no reconnect timer is armed, no
\* reconnect fires and no transport is left connecting or open.
C11_TeardownIsFinal ==
  ~mounted =>
    /\ PendingReconnects = 0
    /\ ev.kind # "reconnect"
    /\ \A w \in Slots : ws[w].st \notin {"CONNECTING", "OPEN"}

\* C12: a callback of a transport never runs after cleanup was called on the
\* connection of that transport.
C12_ClosedIsDetached ==
  ev.kind \in {"open", "error", "close"} /\ ev.att => ~ev.closed

\* C13: the 5s connection timer and the 15s heartbeat of a connection fire
\* only while that connection is the current one.
C13_TimersOfCurrentOnly ==
  ev.kind \in {"timeout", "ping"} => ev.current

\* C14: at most one reconnect timer is armed at any time.
C14_OneReconnectPending ==
  PendingReconnects <= 1

\* The changes of connectionStatus that one handler may make.
AllowedMoves ==
  { <<"disconnected", "connecting">>, <<"connecting", "connected">>,
    <<"connecting", "error">>, <<"connected", "disconnected">>,
    <<"connected", "error">>, <<"error", "connecting">> }

\* C15: while the component is mounted connectionStatus changes only along
\* AllowedMoves, and from connecting to disconnected only when the user asked
\* for another pair.  A click whose cleanup ran shows disconnected, then
\* connecting.
C15_StatusMoves ==
  mounted /\ statusBefore # connectionStatus =>
    IF ev.kind = "request" /\ ev.reset
      THEN statusBefore \in {"disconnected", "connecting", "connected"}
      ELSE <<statusBefore, connectionStatus>> \in AllowedMoves

\* C16: while the component is mounted and connectionStatus is error or
\* disconnected, a timer that will reconnect is armed.
C16_FailureRecovers ==
  mounted /\ connectionStatus \in {"error", "disconnected"} =>
    PendingReconnects > 0 \/ graceTimers # << >>

\* ------------------------------------------------ numbers of the page
\* A JavaScript number as the arithmetic of the page sees it: a fraction n/d in
\* lowest terms, an infinity (n is its sign) or NaN.
Abs(n) == IF n < 0 THEN 0 - n ELSE n
Sgn(n) == IF n < 0 THEN 0 - 1 ELSE IF n > 0 THEN 1 ELSE 0
Min(a, b) == IF a < b THEN a ELSE b

RECURSIVE Gcd(_, _)
Gcd(a, b) == IF b = 0 THEN a ELSE Gcd(b, a % b)

Fin(n, d) == LET g == Gcd(Abs(n), d) IN [k |-> "fin", n |-> n \div g, d |-> d \div g]
Inf(sign) == [k |-> "inf", n |-> sign, d |-> 1]
NaN == [k |-> "nan", n |-> 0, d |-> 1]

\* isNaN(x)
IsNaN(x) == x.k = "nan"

\* The sign of a - b; 0 also when a - b is NaN (Infinity - Infinity), which is
\* how Array.prototype.sort reads a comparator's NaN.
SubSign(a, b) ==
  CASE a.k = "nan" \/ b.k = "nan" -> 0
    [] a.k = "inf" /\ b.k = "inf" -> IF a.n = b.n THEN 0 ELSE a.n
    [] a.k = "inf" -> a.n
    [] b.k = "inf" -> 0 - b.n
    [] OTHER -> Sgn(a.n * b.d - b.n * a.d)

\* x > c for an integer c
GreaterThan(x, c) == SubSign(x, Fin(c, 1)) > 0

\* x / c for a positive integer c
DivideBy(x, c) == IF x.k = "fin" THEN Fin(x.n, x.d * c) ELSE x

Zero == Fin(0, 1)

\* a + b
Plus(a, b) ==
  CASE a.k = "nan" \/ b.k = "nan" -> NaN
    [] a.k = "inf" /\ b.k = "inf" -> IF a.n = b.n THEN a ELSE NaN
    [] a.k = "inf" -> a
    [] b.k = "inf" -> b
    [] OTHER -> Fin(a.n * b.d + b.n * a.d, a.d * b.d)

\* -a
Negate(a) == IF a.k = "nan" THEN a ELSE [a EXCEPT !.n = 0 - @]

\* a - b
Minus(a, b) == Plus(a, Negate(b))

\* a / b
Quotient(a, b) ==
  CASE a.k = "nan" \/ b.k = "nan" -> NaN
    [] a.k = "inf" /\ b.k = "inf" -> NaN
    [] a.k = "inf" -> Inf(IF b.n < 0 THEN 0 - a.n ELSE a.n)
    [] b.k = "inf" -> Zero
    [] b.n = 0 -> IF a.n = 0 THEN NaN ELSE Inf(Sgn(a.n))
    [] OTHER -> Fin(Sgn(b.n) * a.n * b.d, a.d * Abs(b.n))

\* x || 0
OrZero(x) == IF x.k = "nan" \/ (x.k = "fin" /\ x.n = 0) THEN Zero ELSE x

\* Math.max(0, x)
MaxZero(x) == IF x.k = "nan" THEN NaN ELSE IF SubSign(x, Zero) > 0 THEN x ELSE Zero

\* ---------------------------------------------------------- parseFloat
\* A string is the sequence of its characters.  parseFloat skips leading
\* blanks, reads an optional sign and then "Infinity" or the longest decimal
\* literal, and gives NaN when there is none; what follows the literal is
\* ignored.  (No input of the model has an exponent part.)
DigitChars == << "0", "1", "2", "3", "4", "5", "6", "7", "8", "9" >>
IsDigit(c) == \E i \in 1..Len(DigitChars) : DigitChars[i] = c
DigitVal(c) == (CHOOSE i \in 1..Len(DigitChars) : DigitChars[i] = c) - 1
InfinityWord == << "I", "n", "f", "i", "n", "i", "t", "y" >>

RECURSIVE DigitRun(_)
DigitRun(f) == IF f = << >> \/ ~IsDigit(Head(f)) THEN 0 ELSE 1 + DigitRun(Tail(f))

RECURSIVE Decimal(_)
Decimal(f) ==
  IF f = << >> THEN 0 ELSE 10 * Decimal(SubSeq(f, 1, Len(f) - 1)) + DigitVal(f[Len(f)])

RECURSIVE Pow10(_)
Pow10(j) == IF j = 0 THEN 1 ELSE 10 * Pow10(j - 1)

RECURSIVE SkipBlanks(_)
SkipBlanks(f) == IF f # << >> /\ Head(f) = " " THEN SkipBlanks(Tail(f)) ELSE f

StartsWith(f, w) == Len(f) >= Len(w) /\ SubSeq(f, 1, Len(w)) = w

ParseFloat(f) ==
  LET t == SkipBlanks(f)
      signed == t # << >> /\ Head(t) \in {"+", "-"}
      sign == IF signed /\ Head(t) = "-" THEN 0 - 1 ELSE 1
      u == IF signed THEN Tail(t) ELSE t
      i == DigitRun(u)
      rest == SubSeq(u, i + 1, Len(u))
      j == IF rest # << >> /\ Head(rest) = "." THEN DigitRun(Tail(rest)) ELSE 0
  IN IF StartsWith(u, InfinityWord) THEN Inf(sign)
     ELSE IF i + j = 0 THEN NaN
     ELSE Fin(sign * (Decimal(SubSeq(u, 1, i)) * Pow10(j) + Decimal(SubSeq(rest, 2, j + 1))),
              Pow10(j))

\* ------------------------------------------------- order processing
MaxLevels == 20
NormalizeAbove == 1000
NormalizeBy == 40000

\* processPriceLevel's null.  A level it returns never holds a NaN.
Null == [price |-> NaN, amount |-> NaN]

\* processPriceLevel of a render whose selectedPair.symbol is symbol (lines
\* 284-307).  A raw level is [arr, f]: whether it is an array, and its elements.
processPriceLevel(symbol, level) ==
  IF ~level.arr \/ Len(level.f) # 2 THEN Null
  ELSE LET price == ParseFloat(level.f[1])
           amount == ParseFloat(level.f[2])
       IN IF IsNaN(price) \/ IsNaN(amount) THEN Null
          ELSE [price |-> IF symbol = "XRP-USD" /\ GreaterThan(price, NormalizeAbove)
                            THEN DivideBy(price, NormalizeBy)
                            ELSE price,
                amount |-> amount]

\* x put into the sorted sequence seq by the comparator (a, b) => b.price - a.price:
\* behind every entry that does not compare after it (the sort is stable).
RECURSIVE Insert(_, _)
Insert(seq, x) ==
  IF seq = << >> THEN << x >>
  ELSE IF SubSign(x.price, Head(seq).price) > 0 THEN << x >> \o seq
  ELSE << Head(seq) >> \o Insert(Tail(seq), x)

\* .sort((a, b) => b.price - a.price)
RECURSIVE SortByPrice(_)
SortByPrice(seq) ==
  IF seq = << >> THEN << >>
  ELSE Insert(SortByPrice(SubSeq(seq, 1, Len(seq) - 1)), seq[Len(seq)])

\* processOrders without its slice(0, 20)
processOrdersUncapped(symbol, orders) ==
  IF ~orders.arr THEN << >>
  ELSE LET mapped == [i \in 1..Len(orders.items) |-> processPriceLevel(symbol, orders.items[i])]
       IN SortByPrice(SelectSeq(mapped, LAMBDA o : o # Null))

\* processOrders giving up on the whole batch at the first level it rejects
processOrdersAllOrNothing(symbol, orders) ==
  IF ~orders.arr THEN << >>
  ELSE LET mapped == [i \in 1..Len(orders.items) |-> processPriceLevel(symbol, orders.items[i])]
           validOrders == SortByPrice(SelectSeq(mapped, LAMBDA o : o # Null))
       IN IF \E i \in 1..Len(mapped) : mapped[i] = Null THEN << >>
          ELSE SubSeq(validOrders, 1, Min(Len(validOrders), MaxLevels))

\* processOrders (lines 310-328).  Raw orders are [arr, items].
processOrders(symbol, orders) ==
  IF ~orders.arr THEN << >>
  ELSE LET mapped == [i \in 1..Len(orders.items) |-> processPriceLevel(symbol, orders.items[i])]
           validOrders == SortByPrice(SelectSeq(mapped, LAMBDA o : o # Null))
       IN SubSeq(validOrders, 1, Min(Len(validOrders), MaxLevels))

\* ---------------------------------------------- depth messages examined
MaxRawLen == 3
MaxRounds == 2
LongLen == 25

Txt1 == << "1" >>
Txt2 == << "2" >>
Txt3 == << "3" >>
Txt7 == << "7" >>
Txt1p5 == << "1", ".", "5" >>
TxtMinus2 == << "-", "2" >>
Txt100 == << "1", "0", "0" >>
Txt105 == << "1", "0", "5" >>
Txt99p5 == << "9", "9", ".", "5" >>
TxtMinus5 == << "-", "5" >>
Txt12abc == << "1", "2", "a", "b", "c" >>
Txt45000 == << "4", "5", "0", "0", "0" >>
TxtAbc == << "a", "b", "c" >>
TxtEmpty == << >>

\* The JSON array [price, amount]
Level(price, amount) == [arr |-> TRUE, f |-> << price, amount >>]

\* Levels a depth message may hold: well-formed ones (two of them at the same
\* price, one at a price above 1000), fields that are not numbers, negative and infinite fields, arrays
\* of one and of three fields, and the string "12" in place of an array.
RawLevels ==
  { Level(Txt105, Txt2), Level(Txt100, Txt1), Level(Txt100, Txt3), Level(Txt99p5, Txt1p5),
    Level(TxtAbc, Txt1), Level(Txt105, TxtEmpty), Level(Txt12abc, Txt1),
    Level(TxtMinus5, Txt1), Level(Txt100, TxtMinus2), Level(InfinityWord, Txt1),
    Level(Txt45000, Txt1), Level(Txt100, InfinityWord),
    [arr |-> TRUE, f |-> << Txt105 >>],
    [arr |-> TRUE, f |-> << Txt105, Txt2, Txt7 >>],
    [arr |-> FALSE, f |-> << Txt1, Txt2 >>] }

\* More levels than processOrders keeps: prices 101, 102, ... in ascending
\* order, and the same level over and over.
LongOrders ==
  [arr |-> TRUE,
   items |-> [i \in 1..LongLen |->
                Level(<< "1", DigitChars[(i \div 10) + 1], DigitChars[(i % 10) + 1] >>, Txt1)]]

LongSame == [arr |-> TRUE, items |-> [i \in 1..LongLen |-> Level(Txt100, Txt1)]]

\* A value that is not an array where the orders should be
NotOrders == [arr |-> FALSE, items |-> << >>]

RawOrders ==
  { [arr |-> TRUE, items |-> q] : q \in UNION { [1..n -> RawLevels] : n \in 0..MaxRawLen } }
    \cup { LongOrders, LongSame, NotOrders }

NoSnapshot == [bids |-> << >>, asks |-> << >>]

\* Two asks as the exchange sends them, the best (lowest) first
TwoAsks == [arr |-> TRUE, items |-> << Level(Txt100, Txt1), Level(Txt105, Txt2) >>]

RawAsks == { [arr |-> TRUE, items |-> << >>], TwoAsks, LongOrders, NotOrders }

\* The first depth message after the page mounted, as updateOrderBook gets it
\* past its throttle: prevOrderBookRef, spreadHistory and imbalance are as the
\* page declares them (lines 207-223).  before is history: the order book of
\* the message before this one.
FirstJob(p, b, a) ==
  [stage |-> "received", round |-> 1, symbol |-> p, bids |-> b, asks |-> a,
   prev |-> NoSnapshot, before |-> NoSnapshot, processed |-> NoSnapshot,
   book |-> NoSnapshot, spread |-> Zero, hist |-> << >>, imb |-> Zero]

\* The messages examined: every list of bids beside TwoAsks for the pair the
\* page starts with, and every pair and list of asks beside the bids of at
\* most one level.
Jobs ==
  { FirstJob(tradingPairs[1].symbol, b, TwoAsks) : b \in RawOrders }
    \cup
  { FirstJob(p, b, a) :
      p \in Symbols, b \in { o \in RawOrders : Len(o.items) <= 1 }, a \in RawAsks }

\* The messages that may follow the first one
FollowUps ==
  { [bids |-> [arr |-> TRUE, items |-> << >>], asks |-> TwoAsks],
    [bids |-> [arr |-> TRUE, items |-> << Level(Txt105, Txt2) >>],
     asks |-> [arr |-> TRUE, items |-> << >>]],
    [bids |-> [arr |-> TRUE, items |-> << Level(Txt100, Txt3), Level(Txt100, Txt1) >>],
     asks |-> TwoAsks],
    [bids |-> LongOrders, asks |-> LongSame] }

\* calculateTotals' map with the total taken before the entry is added
RECURSIVE TotalsBefore(_, _)
TotalsBefore(orders, runningTotal) ==
  IF orders = << >> THEN << >>
  ELSE LET order == Head(orders)
           entry == [price |-> order.price, amount |-> order.amount,
                     total |-> runningTotal, change |-> Zero]
       IN << entry >> \o TotalsBefore(Tail(orders),
                                      IF IsNaN(order.amount) THEN runningTotal
                                      ELSE Plus(runningTotal, order.amount))

calculateTotalsBefore(orders) == TotalsBefore(orders, Zero)

\* calculateTotals' map over the orders, runningTotal being what the entries
\* before came to (lines 339-350)
RECURSIVE Totals(_, _)
Totals(orders, runningTotal) ==
  IF orders = << >> THEN << >>
  ELSE LET order == Head(orders)
           sum == IF IsNaN(order.amount) THEN runningTotal
                  ELSE Plus(runningTotal, order.amount)
           entry == [price |-> order.price, amount |-> order.amount,
                     total |-> sum, change |-> Zero]
       IN << entry >> \o Totals(Tail(orders), sum)

\* calculateTotals (lines 331-355)
calculateTotals(orders) == Totals(orders, Zero)

\* WithChange taking a missing previous entry for an amount of 0
WithChangeUnguarded(side, prevSide) ==
  [i \in 1..Len(side) |->
     [side[i] EXCEPT !.change = Minus(side[i].amount,
                                      IF i <= Len(prevSide) THEN prevSide[i].amount ELSE Zero)]]

\* The change of each entry against prevOrderBookRef.current (lines 406-413)
WithChange(side, prevSide) ==
  [i \in 1..Len(side) |->
     [side[i] EXCEPT !.change = IF i <= Len(prevSide)
                                  THEN Minus(side[i].amount, prevSide[i].amount)
                                  ELSE Zero]]

\* bids[0]?.price || 0
BestPrice(side) == IF Len(side) = 0 THEN Zero ELSE OrZero(side[1].price)

\* reduce((sum, entry) => sum + (entry.amount || 0), 0)
RECURSIVE Volume(_)
Volume(side) ==
  IF side = << >> THEN Zero
  ELSE Plus(Volume(SubSeq(side, 1, Len(side) - 1)), OrZero(side[Len(side)].amount))

\* calculateImbalance (lines 358-363)
calculateImbalance(orderBook) ==
  LET bidVolume == Volume(orderBook.bids)
      askVolume == Volume(orderBook.asks)
      totalVolume == Plus(bidVolume, askVolume)
  IN IF SubSign(totalVolume, Zero) > 0
       THEN Quotient(Minus(bidVolume, askVolume), totalVolume)
       ELSE Zero

\* updateOrderBook from processOrders to prevOrderBookRef.current =
\* newOrderBook (lines 394-420)
newOrderBook(j) ==
  LET processedBids == processOrders(j.symbol, j.bids)
      processedAsks == processOrders(j.symbol, j.asks)
      book == [bids |-> WithChange(calculateTotals(processedBids), j.prev.bids),
               asks |-> WithChange(calculateTotals(processedAsks), j.prev.asks)]
      bestBid == BestPrice(book.bids)
      bestAsk == BestPrice(book.asks)
  IN IF Len(processedBids) = 0 /\ Len(processedAsks) = 0
       THEN [j EXCEPT !.stage = "dropped"]
       ELSE [j EXCEPT !.stage = "processed",
                      !.processed = [bids |-> processedBids, asks |-> processedAsks],
                      !.book = book,
                      !.spread = MaxZero(Minus(bestAsk, bestBid)),
                      !.prev = book]

\* The requestAnimationFrame callback of updateOrderBook (lines 422-430); the
\* round stands for the time of the entry
publish(j) ==
  [j EXCEPT !.stage = "published",
            !.hist = PushSpread(@, [time |-> j.round, spread |-> j.spread]),
            !.imb = calculateImbalance(j.book)]

pageVars == << ws, wsRef, reconnectTimeoutRef, orphanReconnects, updateTimeoutRef,
               lastUpdateRef, prevOrderBookRef, connectionQueueRef, isProcessingRef,
               performanceRef, orderBookData, spreadHistory, imbalance, selectedPair,
               renderedPair, connectionStatus, graceTimers, settleTasks, nextTimers,
               rafQueue, sinceAdmit, countSince, faults, requests, lastRequest, admits,
               scenario, mounted, statusBefore, ev >>

\* A depth message for the selected pair has passed updateOrderBook's throttle.
OrdersInit ==
  /\ PageInit /\ scenario.feed
  /\ job \in Jobs

ProcessBook ==
  /\ job.stage = "received"
  /\ job' = newOrderBook(job)
  /\ UNCHANGED pageVars

\* The requestAnimationFrame callback: setOrderBookData(newOrderBook), with
\* the spread history and the imbalance
PublishBook ==
  /\ job.stage = "processed"
  /\ job' = publish(job)
  /\ UNCHANGED pageVars

\* The next depth message that passes the throttle
NextMessage ==
  \E m \in FollowUps :
    /\ job.stage \in {"published", "dropped"}
    /\ job.round < MaxRounds
    /\ job' = [job EXCEPT !.stage = "received", !.round = @ + 1,
                          !.bids = m.bids, !.asks = m.asks, !.before = job.book]
    /\ UNCHANGED pageVars

OrdersNext ==
  \/ ProcessBook
  \/ PublishBook
  \/ NextMessage

OrdersSpec == OrdersInit /\ [][OrdersNext]_vars

\* ------------------------------------------------- claims C17 to C20
Sides == { job.book.bids, job.book.asks }

\* What processOrders was given and what it gave, for the two sides
Processed ==
  { [raw |-> job.bids, out |-> job.processed.bids],
    [raw |-> job.asks, out |-> job.processed.asks] }

\* C17 as stated: processOrders returns at most 20 entries, each at a price
\* strictly below the one before it.
C17_StrictlyDescending ==
  job.stage \in {"processed", "published"} =>
    \A side \in Sides :
      /\ Len(side) <= MaxLevels
      /\ \A i \in 1..(Len(side) - 1) : SubSign(side[i].price, side[i + 1].price) > 0

\* C17, corrected: processOrders returns at most 20 entries, none at a price
\* above the one before it (entries at the same price stay, in the order they
\* came in).
C17_CappedDescending ==
  job.stage \in {"processed", "published"} =>
    \A side \in Sides :
      /\ Len(side) <= MaxLevels
      /\ \A i \in 1..(Len(side) - 1) : SubSign(side[i].price, side[i + 1].price) >= 0

\* C17, its case: more than 20 valid levels came in and 20 came out.
C17_Witness ==
  /\ job.stage = "processed"
  /\ job.bids = LongOrders
  /\ Len(job.book.bids) = MaxLevels

\* A raw level with exactly two fields that both parse as a number
WellFormed(level) ==
  /\ level.arr
  /\ Len(level.f) = 2
  /\ ~IsNaN(ParseFloat(level.f[1]))
  /\ ~IsNaN(ParseFloat(level.f[2]))

Parsed(level) == [price |-> ParseFloat(level.f[1]), amount |-> ParseFloat(level.f[2])]

Count(seq, x) == Cardinality({ i \in 1..Len(seq) : seq[i] = x })

\* C18: of an array, processOrders drops exactly the levels that are not
\* well-formed: each well-formed level comes out as often as it came in (as
\* many of them as the cap of 20 leaves room for), levels at the same price
\* included; of something that is not an array it returns the empty list.
C18_EntrywiseRejection ==
  job.stage \in {"processed", "published"} =>
    \A p \in Processed :
      IF ~p.raw.arr THEN p.out = << >>
      ELSE LET good == SelectSeq(p.raw.items, WellFormed)
               kept == [i \in 1..Len(good) |-> Parsed(good[i])]
           IN /\ Len(p.out) = Min(Len(kept), MaxLevels)
              /\ \A i \in 1..Len(p.out) : Count(p.out, p.out[i]) <= Count(kept, p.out[i])
              /\ Len(kept) <= MaxLevels =>
                   \A i \in 1..Len(kept) : Count(p.out, kept[i]) = Count(kept, kept[i])

\* C18, its case: the bids held a level that was rejected and two levels at
\* the same price, which both came out.
C18_Witness ==
  /\ job.stage = "processed"
  /\ job.bids.arr /\ \E i \in 1..Len(job.bids.items) : ~WellFormed(job.bids.items[i])
  /\ Len(job.book.bids) = 2
  /\ SubSign(job.book.bids[1].price, job.book.bids[2].price) = 0
  /\ job.book.bids[1] # job.book.bids[2]

\* A number that is finite and not negative
NonNegative(x) == x.k = "fin" /\ x.n >= 0

\* The message is one that handleMessage passes on: bids and asks are arrays.
Passed == job.bids.arr /\ job.asks.arr

\* C19: every level of a published order book has a finite price and amount,
\* neither of them negative.
C19_FiniteNonNegative ==
  job.stage = "published" /\ Passed =>
    \A side \in Sides : \A i \in 1..Len(side) :
      NonNegative(side[i].price) /\ NonNegative(side[i].amount)

\* C20: a published order book has at most 20 bids and 20 asks, the bids at
\* strictly falling and the asks at strictly rising prices.
C20_SnapshotOrdered ==
  job.stage = "published" /\ Passed =>
    /\ Len(job.book.bids) <= MaxLevels /\ Len(job.book.asks) <= MaxLevels
    /\ \A i \in 1..(Len(job.book.bids) - 1) :
         SubSign(job.book.bids[i].price, job.book.bids[i + 1].price) > 0
    /\ \A i \in 1..(Len(job.book.asks) - 1) :
         SubSign(job.book.asks[i].price, job.book.asks[i + 1].price) < 0

\* ------------------------------------------------- claims C21 to C27
\* The lowest and the highest price of a side that is not empty
LowestPrice(side) ==
  LET prices == { side[i].price : i \in 1..Len(side) }
  IN CHOOSE p \in prices : \A q \in prices : SubSign(p, q) <= 0

HighestPrice(side) ==
  LET prices == { side[i].price : i \in 1..Len(side) }
  IN CHOOSE p \in prices : \A q \in prices : SubSign(p, q) >= 0

\* C21: the spread pushed with a published order book that has bids and asks
\* is max(0, lowest ask price - highest bid price).
C21_SpreadOfBest ==
  job.stage = "published" /\ Passed /\ Len(job.book.bids) > 0 /\ Len(job.book.asks) > 0 =>
    job.hist[Len(job.hist)].spread =
      MaxZero(Minus(LowestPrice(job.book.asks), HighestPrice(job.book.bids)))

\* The sum of the amounts of the first i entries, in their order
RECURSIVE SumOfAmounts(_, _)
SumOfAmounts(side, i) ==
  IF i = 0 THEN Zero ELSE Plus(SumOfAmounts(side, i - 1), side[i].amount)

\* C22: the total of each entry of an order book is the sum of the amounts of
\* the entries up to and including it.
C22_PrefixSums ==
  job.stage \in {"processed", "published"} =>
    \A side \in Sides : \A i \in 1..Len(side) : side[i].total = SumOfAmounts(side, i)

\* C22, its case: amounts 2, 1, 1 came out as totals 2, 3, 4.
C22_Witness ==
  /\ job.stage = "processed"
  /\ Len(job.book.bids) = 3
  /\ [i \in 1..3 |-> job.book.bids[i].amount] = << Fin(2, 1), Fin(1, 1), Fin(1, 1) >>
  /\ [i \in 1..3 |-> job.book.bids[i].total] = << Fin(2, 1), Fin(3, 1), Fin(4, 1) >>

\* The bids and the asks of the order book, each beside the same side of the
\* order book of the message before
WithBefore ==
  { [now |-> job.book.bids, was |-> job.before.bids],
    [now |-> job.book.asks, was |-> job.before.asks] }

\* C23: the change of the entry at rank i of a published order book is its
\* amount less the amount at rank i of the order book before, and 0 when
\* that one has no rank i.
C23_ChangeAgainstBefore ==
  job.stage = "published" =>
    \A p \in WithBefore : \A i \in 1..Len(p.now) :
      p.now[i].change = IF i <= Len(p.was) THEN Minus(p.now[i].amount, p.was[i].amount)
                        ELSE Zero

\* C23, its case: the second order book has a bid whose amount changed and
\* a bid at a rank the first one did not have.
C23_Witness ==
  /\ job.stage = "published" /\ job.round = 2
  /\ Len(job.before.bids) = 1 /\ Len(job.book.bids) = 2
  /\ job.book.bids[1].change # Zero
  /\ job.book.bids[2].change = Zero /\ job.book.bids[2].amount # Zero

\* C25: the imbalance published with an order book is (bidVolume - askVolume)
\* / (bidVolume + askVolume), 0 when both volumes are 0, and lies in [-1, 1].
C25_ImbalanceInRange ==
  job.stage = "published" /\ Passed =>
    LET bidVolume == SumOfAmounts(job.book.bids, Len(job.book.bids))
        askVolume == SumOfAmounts(job.book.asks, Len(job.book.asks))
    IN /\ job.imb = IF bidVolume = Zero /\ askVolume = Zero THEN Zero
                    ELSE Quotient(Minus(bidVolume, askVolume), Plus(bidVolume, askVolume))
       /\ job.imb.k = "fin" /\ Abs(job.imb.n) <= job.imb.d

\* The pair the instrument list names XRP-USD
Designated ==
  tradingPairs[CHOOSE i \in 1..Len(tradingPairs) : tradingPairs[i].name = "XRP-USD"].symbol

\* C27: a price above 1000 comes out divided by 40000 when the selected pair
\* is the one named XRP-USD; every other price comes out as it was read.
C27_Normalization ==
  /\ job.stage \in {"processed", "published"}
  /\ job.bids.arr /\ Len(job.bids.items) = 1 /\ WellFormed(job.bids.items[1])
  => LET raw == ParseFloat(job.bids.items[1].f[1])
     IN job.processed.bids[1].price =
          IF job.symbol = Designated /\ GreaterThan(raw, NormalizeAbove)
            THEN DivideBy(raw, NormalizeBy)
            ELSE raw

\* ------------------------------------------------ the spread history
MaxPushes == 65
FreePushes == 5

\* The spreads pushed
SampleSpreads == { Zero, Fin(1, 2) }

\* The page has published nothing yet: the history is empty.  pushed is
\* history: every entry pushed so far.
HistoryInit ==
  /\ PageInit /\ scenario.feed
  /\ job = [stage |-> "history", hist |-> << >>, pushed |-> << >>]

\* setSpreadHistory of one more published order book (lines 424-428).  After
\* the first FreePushes entries the spread stays at 0.
PushSample ==
  \E x \in SampleSpreads :
    /\ job.stage = "history"
    /\ Len(job.pushed) < MaxPushes
    /\ Len(job.pushed) >= FreePushes => x = Zero
    /\ LET newEntry == [time |-> Len(job.pushed) + 1, spread |-> x]
       IN job' = [job EXCEPT !.hist = PushSpread(@, newEntry),
                             !.pushed = Append(@, newEntry)]
    /\ UNCHANGED pageVars

HistorySpec == HistoryInit /\ [][PushSample]_vars

\* C26: the spread history holds the last 60 entries pushed (all of them while
\* there are no more than 60), oldest first.
C26_LastSixty ==
  job.stage = "history" =>
    LET n == Len(job.pushed)
        kept == Min(n, HistCap)
    IN /\ Len(job.hist) <= HistCap
       /\ job.hist = SubSeq(job.pushed, n - kept + 1, n)

\* C26, its case: 65 entries were pushed; 60 are held, the sixth first.
C26_Witness ==
  /\ job.stage = "history"
  /\ Len(job.pushed) = MaxPushes
  /\ Len(job.hist) = HistCap
  /\ job.hist[1] = job.pushed[MaxPushes - HistCap + 1]

\* ------------------------------------------- claims C24, C28 to C30
\* C24: the previous order book is empty whenever the selected pair or the
\* current connection changes: no order book queued for publication or
\* published has its change computed against the order book of a connection
\* that a switch or a reconnect has superseded.
C24_FreshAfterSwitch ==
  /\ \A i \in 1..Len(rafQueue) : rafQueue[i].prev # "stale"
  /\ orderBookData.prev # "stale"

\* The messages handleMessage has no branch for: text that does not parse, a
\* falsy value, an object of none of the three shapes, a depthUpdate whose b
\* or a is not an array.
Unrecognized ==
  { m \in Messages : m.kind \in {"unparseable", "null", "other"} \/ m.levels = "notarray" }

\* The sockets whose onmessage handler can still run.
Listening == { w \in Slots : ws[w].st = "OPEN" /\ ws[w].att }

\* C28: a message that does not parse or has none of the three recognized
\* shapes leaves everything as it was, on whatever socket and in whatever
\* state of the page it arrives: the order book, the previous order book, the
\* spread history, the imbalance, the throttle, the message counter and the
\* connection.
C28_UnrecognizedDropped ==
  \A w \in Listening, m \in Unrecognized :
    [onmessage(State, w, m) EXCEPT !.ev = NoEv] = State

\* An unrecognized message can arrive on the current socket while an order
\* book is published and the throttle would let an update through.
C28_Witness ==
  /\ wsRef \in Listening
  /\ lastUpdateRef >= ThrottleMs
  /\ orderBookData # NoBook
  /\ prevOrderBookRef # NoBook
  /\ performanceRef.messageCount > 0

\* The feed symbol of the selected pair.
ActiveSymbol == ToLowerCase(FindPair(selectedPair).binanceSymbol)

\* C29: no message for another pair than the selected one gets through: a
\* depthUpdate tagged with a symbol is admitted only if the tag is the
\* selected pair's feed symbol, an untagged snapshot only if the url of the
\* current socket contains it, and a ping changes nothing.
C29_RoutedToActive ==
  \A w \in Listening, m \in Messages :
    LET s == onmessage(State, w, m) IN
    /\ s.ev.kind = "admitted" /\ m.kind = "depthUpdate" /\ m.s # "none" =>
         ToLowerCase(m.s) = ActiveSymbol
    /\ s.ev.kind = "admitted" /\ m.kind = "snapshot" =>
         UrlIncludes(ws[wsRef].url, ActiveSymbol)
    /\ m.kind = "ping" => [s EXCEPT !.ev = NoEv] = State

\* C30: a click on the button of the pair that is already selected changes
\* nothing: nothing is queued, no socket is closed or opened, nothing that was
\* published is cleared.
C30_SamePairNoOp ==
  mounted => [click(State, selectedPair) EXCEPT !.ev = NoEv] = State

\* The click can come while the page is connected and shows an order book.
C30_Witness ==
  /\ mounted
  /\ wsRef \in Listening
  /\ connectionStatus = "connected"
  /\ orderBookData # NoBook
  /\ spreadHistory # << >>

\* ------------------------------------------------- claims C31 to C39
\* C31: a ping is sent only on the socket that is the current connection:
\* never on one that a switch or a reconnect has superseded, nor on one that
\* is closed.
C31_PingOnCurrentOnly ==
  ev.kind = "ping" => ev.current

\* --------------------------------------------- the history over time
MaxClock == 65000     \* milliseconds of stream followed
Minute == 60000       \* the 1-minute rolling history of README.md

\* The time between two depth messages of the stream: the 100ms of the
\* stream's name (@depth20@100ms), and slower streams.
Gaps == { 100, 500, 1000 }

\* The connection has just opened: nothing was admitted or pushed yet.  now is
\* the time since then, since the time since the last admitted message (what
\* updateOrderBook makes of lastUpdateRef), pushed every entry pushed so far.
WindowInit ==
  /\ PageInit /\ scenario.feed
  /\ \E g \in Gaps :
       job = [stage |-> "window", gap |-> g, now |-> 0, since |-> ThrottleMs,
              hist |-> << >>, pushed |-> << >>]

\* The next depth message arrives: updateOrderBook's throttle (lines 369-371),
\* then the animation frame that pushes its spread (lines 423-428).
StreamMessage ==
  /\ job.stage = "window"
  /\ job.now + job.gap <= MaxClock
  /\ LET now == job.now + job.gap
         since == Min(job.since + job.gap, ThrottleMs)
         newEntry == [time |-> now, spread |-> Zero]
     IN job' = IF since < ThrottleMs
                 THEN [job EXCEPT !.now = now, !.since = since]
                 ELSE [job EXCEPT !.now = now, !.since = 0,
                                  !.hist = PushSpread(@, newEntry),
                                  !.pushed = Append(@, newEntry)]
  /\ UNCHANGED pageVars

WindowSpec == WindowInit /\ [][StreamMessage]_vars

\* C32: the spread history holds every entry pushed less than 60 seconds ago.
C32_OneMinuteWindow ==
  job.stage = "window" =>
    \A i \in 1..Len(job.pushed) :
      job.now - job.pushed[i].time < Minute =>
        \E k \in 1..Len(job.hist) : job.hist[k] = job.pushed[i]

\* C33: a switch clears the published state, waits 500ms, and only then
\* closes the old connection and opens the new one: while the wait of a switch
\* is running, the connection it started from is still the current one (or
\* there is none).
C33_CloseAfterSettle ==
  \A i \in 1..Len(settleTasks) :
    settleTasks[i].rem > 0 =>
      wsRef = 0 \/ ws[wsRef].pair = settleTasks[i].pair

\* C34: after a switch has cleared them, the published order book, the spread
\* history and the imbalance hold nothing of the pair that was selected
\* before: whatever is published comes from the stream of the selected pair.
C34_ClearedUntilNewPair ==
  /\ orderBookData # NoBook => orderBookData.sym = ActiveSymbol
  /\ \A i \in 1..Len(spreadHistory) : spreadHistory[i] = ActiveSymbol
  /\ imbalance # "zero" => imbalance = ActiveSymbol

\* The sockets that are connecting or open.
Alive == { w \in Slots : ws[w].st \in {"CONNECTING", "OPEN"} }

\* C35: at most one socket is connecting or open at any time.
C35_OneTransport ==
  Cardinality(Alive) <= 1

\* C36: an amount that is not a finite number never gets into the totals: its
\* entry has change 0 and the total of the entry before it (0 for the first),
\* and every total of an order book is finite.
C36_NonFiniteContained ==
  job.stage \in {"processed", "published"} =>
    \A side \in Sides : \A i \in 1..Len(side) :
      /\ side[i].total.k = "fin"
      /\ side[i].amount.k # "fin" =>
           /\ side[i].change = Zero
           /\ side[i].total = IF i = 1 THEN Zero ELSE side[i - 1].total

\* C37: the order book, the imbalance and the newest entry of the spread
\* history that a render shows come from one and the same update, and after
\* a switch has cleared them all three are empty together.
C37_PublishedTogether ==
  IF orderBookData = NoBook
    THEN imbalance = "zero" /\ spreadHistory = << >>
    ELSE /\ imbalance = orderBookData.sym
         /\ spreadHistory # << >>
         /\ spreadHistory[Len(spreadHistory)] = orderBookData.sym

\* C37, its case: after a switch, an animation frame has published an update
\* of the new pair's connection.
C37_Witness ==
  /\ ev.kind = "publish" /\ ~ev.stale
  /\ requests > 0
  /\ orderBookData # NoBook
  /\ orderBookData.sym = ActiveSymbol

\* C38: under a stream that delivers a message every 100ms, for however long,
\* the flood guard never trips: no admitted message makes updateOrderBook tear
\* the connection down.
C38_SteadyFeedNeverFloods ==
  ~(ev.kind = "admitted" /\ ev.flood)

\* The updates that have no level left after processOrders
EmptyUpdates ==
  { m \in Messages : m.kind \in {"depthUpdate", "snapshot"} /\ m.levels = "empty" }

\* What an admitted update with no level left must leave alone and must
\* still do, given what the message counter comes to
EmptyUpdateEffect(s, count) ==
  /\ s.orderBookData = orderBookData
  /\ s.prevOrderBookRef = prevOrderBookRef
  /\ s.spreadHistory = spreadHistory
  /\ s.imbalance = imbalance
  /\ s.rafQueue = rafQueue
  /\ s.lastUpdateRef = 0
  /\ s.performanceRef.messageCount = count

====
